---- MODULE Spec2Model ----
(***************************************************************************)
(* Equal-ratio channel selection of the MobileNetV2 pruning notebook:      *)
(*                                                                         *)
(*   all_channel_indices_to_prune: List[int] = []                          *)
(*   for _, labels, criteria in iterate_over_gate_criteria(pruning_info):  *)
(*       criteria: np.ndarray = np.array(criteria)                         *)
(*       prune_channels_num = int(len(criteria) * pruning_ratio)           *)
(*       index_for_pruning = np.argsort(criteria)[:prune_channels_num]     *)
(*       all_channel_indices_to_prune +=                                   *)
(*           np.array(labels)[index_for_pruning].tolist()                  *)
(*                                                                         *)
(* The pruning ratio is an exact rational num/den, criteria are finite     *)
(* totally ordered scores, and positions are 1-based (Python position p is *)
(* position p + 1 here).                                                   *)
(*                                                                         *)
(* SpecPipeline follows the runs of the four notebooks cell by cell:       *)
(* quantization of YOLO-v5, manual and automatic pruning of MobileNetV2,   *)
(* and pruning with PyTorch Lightning.                                     *)
(***************************************************************************)
EXTENDS Integers, Sequences, FiniteSets, TLC

\* ------------------------------------------------------------------ bounds

\* Most tensors the pruning info yields.
MaxTensors == 2

\* Most criteria values (channels) of the pruning info, over all tensors.
MaxChannels == 4

\* Most criteria values (channels) of one tensor.
MaxLen == 3

\* Most tensors of one pruning info whose label sequence is not parallel to
\* its criteria.
MaxMismatched == 1

\* Pruning ratios are the multiples of 1/RatioDen from -1/RatioDen to
\* (RatioDen + 1)/RatioDen.
RatioDen == 3

\* The label of the first channel of the first tensor.
LabelBase == 10

\* Distance between the first labels of consecutive tensors.
LabelStride == 2

\* ----------------------------------------------------------------- helpers

Min(a, b) == IF a <= b THEN a ELSE b

Max(a, b) == IF a >= b THEN a ELSE b

Range(s) == {s[i] : i \in DOMAIN s}

SeqsOfLen(S, n) == [1..n -> S]

RECURSIVE Concat(_)
\* The concatenation of a sequence of sequences.
Concat(ss) == IF ss = <<>> THEN <<>> ELSE Head(ss) \o Concat(Tail(ss))

RECURSIVE SumSeq(_)
SumSeq(s) == IF s = <<>> THEN 0 ELSE Head(s) + SumSeq(Tail(s))

\* floor(a / b) for b > 0.
Floor(a, b) == a \div b

\* ------------------------------------------------------------------ inputs

\* The criteria arrays of each length, given by the ranks of their values:
\* the values of an array of n scores are 0..m for some m < n. The cell only
\* compares criteria values, so every array of scores behaves as the array
\* of its ranks.
RankArrays ==
    [n \in 0..MaxLen |->
        {c \in SeqsOfLen(0..(n - 1), n) :
            \A v \in Range(c) : \A u \in 0..(v - 1) : u \in Range(c)}]

\* The pruning ratios tried: negative, zero, inside (0,1), one, above one.
Ratios == {[num |-> a, den |-> RatioDen] : a \in (-1)..(RatioDen + 1)}

FirstLabel(t) == LabelBase + (t - 1) * LabelStride

\* The labels of tensor t when it has m of them: consecutive identifiers.
LabelRun(t, m) == [i \in 1..m |-> FirstLabel(t) + i - 1]

RECURSIVE CriteriaLists(_, _)
\* The criteria arrays of exactly t tensors with at most MaxLen values each
\* and at most `budget` values in all.
CriteriaLists(t, budget) ==
    IF t = 0 THEN {<<>>}
    ELSE UNION {LET rests == CriteriaLists(t - 1, budget - n)
                    arrays == RankArrays[n]
                IN {<<c>> \o rest : rest \in rests, c \in arrays} :
                n \in 0..Min(budget, MaxLen)}

\* How far each tensor's label sequence is from parallel to its criteria:
\* at most MaxMismatched tensors have one label too few or one too many.
Mismatches(cs) ==
    {d \in [DOMAIN cs -> {-1, 0, 1}] :
        /\ Cardinality({t \in DOMAIN cs : d[t] # 0}) <= MaxMismatched
        /\ \A t \in DOMAIN cs : Len(cs[t]) + d[t] >= 0}

\* What iterate_over_gate_criteria(pruning_info) yields for the criteria
\* arrays cs and the mismatches d: for each tensor its labels and its
\* criteria.
MakeInfo(cs, d) ==
    [t \in DOMAIN cs |-> [labels |-> LabelRun(t, Len(cs[t]) + d[t]),
                          criteria |-> cs[t]]]

\* A tensor of four channels with its scores in tenths (0.5, 0.1, 0.9, 0.3),
\* its labels, and the ratio one half.
ExampleCriteria == <<5, 1, 9, 3>>

ExampleLabels == <<10, 11, 12, 13>>

ExampleRatio == [num |-> 1, den |-> 2]

\* The pruning infos of one tensor that has the first n of the example's
\* labels and n scores among the example's, for n from 0 to 4.
ExampleInfos ==
    {<<[labels |-> SubSeq(ExampleLabels, 1, Len(c)), criteria |-> c]>> :
        c \in UNION {SeqsOfLen(Range(ExampleCriteria), n) :
                        n \in 0..Len(ExampleCriteria)}}

\* The example's channels as two tensors of two channels each.
ExampleSplitInfo ==
    << [labels |-> SubSeq(ExampleLabels, 1, 2),
        criteria |-> SubSeq(ExampleCriteria, 1, 2)],
       [labels |-> SubSeq(ExampleLabels, 3, 4),
        criteria |-> SubSeq(ExampleCriteria, 3, 4)] >>

\* The ratios 0, 1/2 and 1.
ExampleRatios ==
    {[num |-> a, den |-> ExampleRatio.den] : a \in 0..ExampleRatio.den}

\* ------------------------------------------------------- the cell's pieces

\* Python int(a / b) for b > 0: truncation toward zero.
IntTrunc(a, b) == IF a >= 0 THEN a \div b ELSE -((-a) \div b)

\* Faulty variant: the criteria of every triple so far are counted.
ChannelsCountedSoFar(info, t) == SumSeq([i \in 1..t |-> Len(info[i].criteria)])

\* len(criteria): the criteria are those of the triple the loop is on.
ChannelsCounted(info, t) == Len(info[t].criteria)

\* Faulty variant: math.ceil(len(criteria) * pruning_ratio) in place of int(...).
PruneChannelsNumCeil(n, ratio) == -Floor(-(n * ratio.num), ratio.den)

\* Faulty variant: round(len(criteria) * pruning_ratio) in place of int(...).
PruneChannelsNumRounded(n, ratio) ==
    IntTrunc(2 * n * ratio.num + ratio.den, 2 * ratio.den)

\* Faulty variant: max(1, int(len(criteria) * pruning_ratio)).
PruneChannelsNumAtLeastOne(n, ratio) ==
    Max(1, IntTrunc(n * ratio.num, ratio.den))

\* Faulty variant: int(len(criteria) * (1 + pruning_ratio)).
PruneChannelsNumGrown(n, ratio) ==
    IntTrunc(n * (ratio.den + ratio.num), ratio.den)

\* Faulty variant: int(len(criteria) * (1 - pruning_ratio)), the share kept.
PruneChannelsNumKept(n, ratio) ==
    IntTrunc(n * (ratio.den - ratio.num), ratio.den)

\* prune_channels_num = int(len(criteria) * pruning_ratio)
PruneChannelsNum(n, ratio) == IntTrunc(n * ratio.num, ratio.den)

\* Faulty variant: s[k:] in place of s[:k].
SliceFrom(s, k) ==
    IF k >= 0 THEN SubSeq(s, Min(k, Len(s)) + 1, Len(s))
    ELSE SubSeq(s, Max(0, Len(s) + k) + 1, Len(s))

\* Python s[:k]: the first k entries, all of s when k exceeds its length,
\* and all but the last -k entries when k is negative.
SliceTo(s, k) ==
    IF k >= 0 THEN SubSeq(s, 1, Min(k, Len(s)))
    ELSE SubSeq(s, 1, Max(0, Len(s) + k))

RECURSIVE AscendingOrders(_, _)
\* The orders of the positions `rest` of c in which the values ascend: the
\* next position is any one that holds the least remaining value.
AscendingOrders(c, rest) ==
    IF rest = {} THEN {<<>>}
    ELSE LET least == {i \in rest : \A j \in rest : c[i] <= c[j]}
         IN UNION {{<<i>> \o o : o \in AscendingOrders(c, rest \ {i})} :
                   i \in least}

RECURSIVE StableOrder(_, _)
\* The stable ascending order of the positions `rest` of c: among equal
\* values the smaller position first.
StableOrder(c, rest) ==
    IF rest = {} THEN <<>>
    ELSE LET i == CHOOSE a \in rest :
                    \A b \in rest : c[a] < c[b] \/ (c[a] = c[b] /\ a <= b)
         IN <<i>> \o StableOrder(c, rest \ {i})

\* np.argsort(c, kind='stable')
StableArgsort(c) == StableOrder(c, DOMAIN c)

\* Faulty variant: the positions as they stand, the sort left out.
PositionsInOrder(c) == {[i \in DOMAIN c |-> i]}

\* Faulty variant: np.argsort(-c), the highest scores first.
DescendingOrders(c) ==
    {[i \in DOMAIN o |-> o[Len(o) + 1 - i]] : o \in AscendingOrders(c, DOMAIN c)}

\* What np.argsort(c) may return: a permutation of the positions that puts
\* the values in ascending order. The default kind is quicksort, which is
\* not stable: the order of equal values is the build's.
ArgsortOutcomes(c) == AscendingOrders(c, DOMAIN c)

\* Faulty variant: a sort that breaks ties anew at every call.
ArgsortAnew(memo, c) == ArgsortOutcomes(c)

\* np.argsort is a function: on an array it has sorted before (memo) it
\* returns what it returned then.
Argsort(memo, c) ==
    IF c \in DOMAIN memo THEN {memo[c]} ELSE ArgsortOutcomes(c)

\* np.array(labels)[index] raises IndexError when a position lies outside
\* labels.
IndexInBounds(labels, index) == \A i \in DOMAIN index : index[i] <= Len(labels)

\* Faulty variant: index.tolist(), the positions in place of the labels.
TakePositions(labels, index) == index

\* np.array(labels)[index].tolist()
TakeLabels(labels, index) == [i \in DOMAIN index |-> labels[index[i]]]

\* Faulty variant: all_channel_indices_to_prune = taken
Overwrite(acc, taken) == taken

\* all_channel_indices_to_prune += taken
Accumulate(acc, taken) == acc \o taken

\* Faulty variant: criteria.sort(), which sorts the pruning info's own array.
InfoSortedInPlace(info, t) ==
    [info EXCEPT ![t].criteria =
        [i \in DOMAIN @ |-> @[StableArgsort(@)[i]]]]

\* The pruning info after one iteration: np.array(criteria) and
\* np.array(labels) copy, np.argsort returns a new array.
InfoAfterIteration(info, t) == info

\* ---------------------------------------------------------- the notebooks

\* Most runs of a notebook in one kernel.
MaxRuns == 2

\* A code cell: the line of its source, what it does, the names it reads
\* that cells of the notebook bind (imported names left out), the model or
\* model file it works on, the model or model file it makes, the other names
\* it binds, and the names an execution that raises may leave bound or
\* half modified.
Cell(line, op, reads, on, out, binds, leaves) ==
    [line |-> line, op |-> op, reads |-> reads, on |-> on, out |-> out,
     binds |-> binds, leaves |-> leaves]

\* A cell of imports, definitions, constants or directories.
SetupCell(line, reads, binds) == Cell(line, "setup", reads, "-", "-", binds, {})

\* Automatic quantization of YOLO-v5 (part_000, first notebook).
QuantizationCells ==
    << Cell(66, "shell", {}, "-", "-", {}, {}),
       SetupCell(78, {}, {}),
       SetupCell(131, {}, {}),
       SetupCell(169, {}, {}),
       Cell(179, "dataloaders", {}, "-", "-", {"valid_dataloader"}, {}),
       Cell(218, "export_baseline", {}, "-", "yolov5s.onnx", {"yolov5s.pt"},
            {}),
       Cell(230, "load_model", {"yolov5s.onnx"}, "yolov5s.onnx",
            "regular_model", {}, {}),
       SetupCell(249, {}, {}),
       Cell(278, "distill", {"regular_model", "valid_dataloader"},
            "regular_model", "fake_quantized_model", {},
            {"fake_quantized_model"}),
       Cell(309, "export", {"fake_quantized_model"}, "fake_quantized_model",
            "yolov5s_trt_int8.onnx", {}, {"fake_quantized_model"}),
       SetupCell(341, {}, {}),
       Cell(351, "load_model", {"yolov5s.pt"}, "yolov5s.pt", "yolov5s", {}, {}),
       Cell(361, "benchmark", {"yolov5s", "yolov5s_trt_int8.onnx"},
            "yolov5s_trt_int8.onnx", "-", {}, {}),
       SetupCell(388, {}, {}),
       SetupCell(406, {}, {}),
       SetupCell(417, {}, {"opt"}),
       Cell(434, "evaluate", {"opt", "yolov5s.pt"}, "yolov5s.pt", "-", {}, {}),
       SetupCell(444, {}, {}),
       SetupCell(454, {"opt"}, {"opt"}),
       Cell(468, "evaluate", {"opt", "yolov5s_trt_int8.onnx"},
            "yolov5s_trt_int8.onnx", "-", {}, {}) >>

\* Manual pruning of MobileNetV2 (part_000, second notebook): the cells up
\* to the choice of the pruning ratio.
ManualPreparationCells ==
    << SetupCell(541, {}, {}),
       SetupCell(554, {}, {}),
       SetupCell(591, {}, {}),
       SetupCell(637, {}, {}),
       Cell(659, "dataloaders", {}, "-", "-",
            {"train_dataloader", "validation_dataloader"}, {}),
       Cell(681, "create_model", {}, "-", "regular_model", {},
            {"regular_model"}),
       Cell(695, "load_weights", {"regular_model"}, "regular_model", "-", {},
            {"regular_model"}),
       Cell(709, "evaluate", {"regular_model", "validation_dataloader"},
            "regular_model", "-", {}, {}),
       SetupCell(733, {}, {"pruning_ratio", "loss_function"}) >>

ManualCalibrationCell ==
    Cell(758, "calibrate", {"regular_model", "train_dataloader", "loss_function"},
         "regular_model", "-", {"pruning_info"}, {})

ManualSelectionCell ==
    Cell(788, "select", {"pruning_info", "pruning_ratio"}, "-", "-",
         {"all_channel_indices_to_prune"}, {"all_channel_indices_to_prune"})

ManualPruneCell ==
    Cell(816, "prune",
         {"regular_model", "pruning_info", "all_channel_indices_to_prune"},
         "regular_model", "pruned_model", {}, {})

ManualTuneBnCell ==
    Cell(842, "tune_bn", {"pruned_model", "train_dataloader"}, "pruned_model",
         "-", {}, {"pruned_model"})

ManualEvaluationCell ==
    Cell(865, "evaluate", {"pruned_model", "validation_dataloader"},
         "pruned_model", "-", {}, {})

ManualFineTuneCells ==
    << Cell(882, "finetune",
            {"pruned_model", "train_dataloader", "validation_dataloader"},
            "pruned_model", "-", {"loss_function"}, {"pruned_model"}),
       Cell(918, "evaluate", {"pruned_model", "validation_dataloader"},
            "pruned_model", "-", {}, {}) >>

\* Faulty variant: the calibration cell comes a second time, after the
\* selection.
ManualPruningCellsRecalibrating ==
    ManualPreparationCells
        \o << ManualCalibrationCell, ManualSelectionCell, ManualCalibrationCell,
              ManualPruneCell, ManualTuneBnCell, ManualEvaluationCell >>
        \o ManualFineTuneCells

\* Faulty variant: the pruned model is evaluated before its batch norm
\* statistics are tuned.
ManualPruningCellsEvaluatingFirst ==
    ManualPreparationCells
        \o << ManualCalibrationCell, ManualSelectionCell, ManualPruneCell,
              ManualEvaluationCell, ManualTuneBnCell >>
        \o ManualFineTuneCells

\* Manual pruning of MobileNetV2 (part_000, second notebook).
ManualPruningCells ==
    ManualPreparationCells
        \o << ManualCalibrationCell, ManualSelectionCell, ManualPruneCell,
              ManualTuneBnCell, ManualEvaluationCell >>
        \o ManualFineTuneCells

\* Automatic pruning of MobileNetV2 (part_001): the cells up to the
\* definition of the latency calculation function, equal-ratio pruning and
\* fine-tuning among them.
AutoEqualPruningCells ==
    << SetupCell(85, {}, {}),
       SetupCell(98, {}, {}),
       SetupCell(136, {}, {}),
       SetupCell(182, {}, {}),
       Cell(204, "dataloaders", {}, "-", "-",
            {"train_dataloader", "validation_dataloader"}, {}),
       Cell(226, "create_model", {}, "-", "regular_model", {},
            {"regular_model"}),
       Cell(240, "load_weights", {"regular_model"}, "regular_model", "-", {},
            {"regular_model"}),
       Cell(254, "evaluate", {"regular_model", "validation_dataloader"},
            "regular_model", "-", {}, {}),
       SetupCell(278, {}, {"pruning_ratio", "loss_function"}),
       Cell(310, "calibrate_and_prune",
            {"regular_model", "train_dataloader", "loss_function",
             "pruning_ratio"},
            "regular_model", "pruned_model", {}, {}),
       Cell(338, "evaluate", {"pruned_model", "validation_dataloader"},
            "pruned_model", "-", {}, {}),
       Cell(355, "finetune",
            {"pruned_model", "train_dataloader", "validation_dataloader"},
            "pruned_model", "-", {}, {"pruned_model"}),
       Cell(391, "evaluate", {"pruned_model", "validation_dataloader"},
            "pruned_model", "-", {}, {}),
       SetupCell(418, {"train_dataloader"}, {"lcf"}) >>

\* desired_latency = lcf(pruned_model.eval())
AutoLatencyCell ==
    Cell(437, "latency", {"lcf", "pruned_model"}, "pruned_model", "-",
         {"desired_latency"}, {})

\* optimal_pruned_model = calibrate_and_prune_model_optimal(
\*     model=regular_model, ..., target_latency=desired_latency, ...)
AutoOptimalPruneCell ==
    Cell(466, "calibrate_and_prune",
         {"regular_model", "train_dataloader", "loss_function", "lcf",
          "desired_latency"},
         "regular_model", "optimal_pruned_model", {}, {})

AutoOptimalFinalCells ==
    << Cell(494, "evaluate",
            {"optimal_pruned_model", "validation_dataloader", "lcf"},
            "optimal_pruned_model", "-", {}, {}),
       Cell(506, "finetune",
            {"optimal_pruned_model", "train_dataloader",
             "validation_dataloader"},
            "optimal_pruned_model", "-", {}, {"optimal_pruned_model"}) >>

\* Faulty variant: the optimal search is given the equal-ratio pruned model,
\* and its target is the latency of the original model.
AutoPruningCellsSearchingPruned ==
    AutoEqualPruningCells
        \o << [AutoLatencyCell EXCEPT !.on = "regular_model",
                                      !.reads = {"lcf", "regular_model"}],
              [AutoOptimalPruneCell EXCEPT !.on = "pruned_model",
                                           !.reads = @ \cup {"pruned_model"}] >>
        \o AutoOptimalFinalCells

\* Automatic pruning of MobileNetV2 (part_001).
AutoPruningCells ==
    AutoEqualPruningCells
        \o << AutoLatencyCell, AutoOptimalPruneCell >>
        \o AutoOptimalFinalCells

\* Pruning of MobileNetV2 with PyTorch Lightning.
LightningPruningCells ==
    << SetupCell(10, {}, {}),
       SetupCell(20, {}, {}),
       SetupCell(49, {}, {}),
       Cell(145, "train_baseline", {}, "-", "model", {}, {"model"}),
       SetupCell(165, {}, {}),
       SetupCell(178, {}, {"pruning_ratio"}),
       Cell(188, "create_model", {}, "-", "lit_model", {}, {"lit_model"}),
       Cell(202, "evaluate", {"lit_model"}, "lit_model", "-", {}, {}),
       Cell(213, "calibrate", {"lit_model"}, "lit_model", "-",
            {"pruning_info"}, {}),
       Cell(230, "select", {"pruning_info", "pruning_ratio"}, "-", "-",
            {"all_channel_indices_to_prune"}, {}),
       Cell(240, "prune",
            {"lit_model", "pruning_info", "all_channel_indices_to_prune"},
            "lit_model", "pruned_model", {}, {}),
       Cell(255, "save_model", {"pruned_model"}, "pruned_model",
            "pruned_model.pth", {}, {}),
       SetupCell(273, {}, {}),
       Cell(302, "load_model", {"pruned_model.pth"}, "pruned_model.pth",
            "pruned_model", {}, {"pruned_model"}),
       Cell(313, "finetune", {"pruned_model"}, "pruned_model", "-", {},
            {"pruned_model"}),
       Cell(324, "evaluate", {"pruned_model"}, "pruned_model", "-", {}, {}),
       SetupCell(342, {}, {}),
       Cell(352, "latency", {"lit_model"}, "lit_model", "-", {}, {}),
       Cell(363, "latency", {"pruned_model"}, "pruned_model", "-", {}, {}) >>

Notebooks ==
    {"quantization", "manual_pruning", "auto_pruning", "lightning_pruning"}

\* The code cells of a notebook, in the order of the file.
Cells(nb) ==
    CASE nb = "quantization" -> QuantizationCells
      [] nb = "manual_pruning" -> ManualPruningCells
      [] nb = "auto_pruning" -> AutoPruningCells
      [] nb = "lightning_pruning" -> LightningPruningCells

\* A model as the notebooks make it, before any weights are loaded.
NewModel ==
    [channels |-> "all", bn_stats |-> "kept", weights |-> "initial",
     distilled |-> FALSE, quantization_mode |-> FALSE]

\* What a cell that works on no model has for its model.
NoModel ==
    [channels |-> "-", bn_stats |-> "-", weights |-> "-",
     distilled |-> FALSE, quantization_mode |-> FALSE]

\* Faulty variant: the model given is pruned itself, whatever inplace says.
PruneModelInPlace(model, inplace) ==
    LET pruned == [model EXCEPT !.channels = "pruned", !.bn_stats = "stale"]
    IN [original |-> pruned, result |-> pruned]

\* prune_model(model=..., inplace=...): the model given after the call and
\* the model returned. With inplace=False the channels are removed from a
\* copy.
PruneModel(model, inplace) ==
    LET pruned == [model EXCEPT !.channels = "pruned", !.bn_stats = "stale"]
    IN [original |-> IF inplace THEN pruned ELSE model, result |-> pruned]

\* Faulty variant: every axis of the input and the batch axis of the output
\* are dynamic.
ExportInterfaceAllDynamic ==
    [input_names |-> <<"images">>,
     output_names |-> <<"output">>,
     dynamic_axes |-> {<<"images", 0>>, <<"images", 1>>, <<"images", 2>>,
                       <<"images", 3>>, <<"output", 0>>}]

\* The inplace argument of the cell's call of prune_model: inplace=False in
\* both notebooks that call it.
InplaceArgument(cell) == FALSE

\* The names and the dynamic axes torch.onnx.export is given.
ExportInterface ==
    [input_names |-> <<"images">>,
     output_names |-> <<"output">>,
     dynamic_axes |-> {<<"images", 0>>}]

\* ------------------------------------------------------------------- state

VARIABLES
    pruning_info,                  \* sequence of [labels, criteria]
    pruning_ratio,                 \* [num, den]
    all_channel_indices_to_prune,  \* the prune-label list
    pc,                            \* "idle", "loop", "done", "error"
    it,                            \* triples the for loop has consumed
    prune_channels_num,            \* of the last iteration
    index_for_pruning,             \* of the last iteration
    selected,                      \* what each iteration of this run appended
    argsort_memo,                  \* np.argsort on the arrays sorted so far
    reran,                         \* the cell has been executed again
    first_output,                  \* the list the first execution left
    notebook,                      \* the notebook the kernel runs
    cell_no,                       \* code cells of this run that have ended
    halted,                        \* a cell of this run has raised
    runs,                          \* runs of the notebook begun in the kernel
    trace,                         \* the cells this run has executed
    bound,                         \* names bound in the kernel, files written
    partial,                       \* names a cell that raised has left
    models,                        \* the models bound to names or in files
    exported,                      \* what torch.onnx.export has declared
    first_ratio,                   \* the ratio of the first execution
    measured,                      \* the latencies bound to names
    dataloader,                    \* the batches eval_model is given
    eval_pc,                       \* "idle", "loop", "done", "error"
    visited,                       \* the batches the for loop has visited
    total,                         \* eval_model's total
    total_loss,                    \* eval_model's total_loss
    total_correct,                 \* eval_model's total_correct
    returned,                      \* what eval_model has returned
    module,                        \* the class of the module the trainer is given
    steps_per_epoch,               \* len(self.train_dataloader())
    fit_pc,                        \* "new", "training", ..., "tested"
    configured,                    \* what configure_optimizers has returned
    global_step,                   \* training steps done
    called                         \* the methods called, with the class defining each

cellVars == <<pruning_info, pruning_ratio, all_channel_indices_to_prune, pc, it,
              prune_channels_num, index_for_pruning, selected, argsort_memo,
              reran, first_output, first_ratio>>

nbVars == <<notebook, cell_no, halted, runs, trace, bound, partial, models,
            exported, measured>>

evalVars == <<dataloader, eval_pc, visited, total, total_loss, total_correct,
              returned>>

fitVars == <<module, steps_per_epoch, fit_pc, configured, global_step, called>>

vars == <<pruning_info, pruning_ratio, all_channel_indices_to_prune, pc, it,
          prune_channels_num, index_for_pruning, selected, argsort_memo,
          reran, first_output, notebook, cell_no, halted, runs, trace, bound,
          partial, models, exported, first_ratio, measured, dataloader,
          eval_pc, visited, total, total_loss, total_correct, returned,
          module, steps_per_epoch, fit_pc, configured, global_step, called>>

\* A kernel that has run no cell of the notebook nb.
FreshKernel(nb) ==
    /\ notebook = nb
    /\ cell_no = 0
    /\ halted = FALSE
    /\ runs = 1
    /\ trace = <<>>
    /\ bound = {}
    /\ partial = {}
    /\ models = <<>>
    /\ exported = {}
    /\ measured = <<>>

\* eval_model has not been called, on the dataloader batches.
EvalIdle(batches) ==
    /\ dataloader = batches
    /\ eval_pc = "idle"
    /\ visited = <<>>
    /\ total = 0
    /\ total_loss = 0
    /\ total_correct = 0
    /\ returned = <<>>

\* A module of class cls whose training dataloader has len batches, before
\* the trainer is given it.
NewModule(cls, len) ==
    /\ module = cls
    /\ steps_per_epoch = len
    /\ fit_pc = "new"
    /\ configured = <<>>
    /\ global_step = 0
    /\ called = {}

Init ==
    /\ \E len \in 0..MaxTensors :
         \E cs \in CriteriaLists(len, MaxChannels) :
           \E d \in Mismatches(cs) : pruning_info = MakeInfo(cs, d)
    /\ pruning_ratio \in Ratios
    /\ all_channel_indices_to_prune = <<>>
    /\ pc = "idle"
    /\ it = 0
    /\ prune_channels_num = 0
    /\ index_for_pruning = <<>>
    /\ selected = <<>>
    /\ argsort_memo = <<>>
    /\ reran = FALSE
    /\ first_output = <<>>
    /\ first_ratio = pruning_ratio
    /\ FreshKernel("manual_pruning")
    /\ EvalIdle(<<>>)
    /\ NewModule("LitModel", 1)

\* ----------------------------------------------------------------- actions

\* Faulty variant: the list is not emptied, the loop appends to the list the
\* execution before left.
StartCellKeepingList ==
    /\ pc = "idle"
    /\ pc' = "loop"
    /\ it' = 0
    /\ selected' = <<>>
    /\ UNCHANGED <<pruning_info, pruning_ratio, all_channel_indices_to_prune,
                   prune_channels_num, index_for_pruning, argsort_memo, reran,
                   first_output, first_ratio>>
    /\ UNCHANGED nbVars
    /\ UNCHANGED evalVars
    /\ UNCHANGED fitVars

\* The cell starts: all_channel_indices_to_prune: List[int] = []
StartCell ==
    /\ pc = "idle"
    /\ all_channel_indices_to_prune' = <<>>
    /\ pc' = "loop"
    /\ it' = 0
    /\ selected' = <<>>
    /\ UNCHANGED <<pruning_info, pruning_ratio, prune_channels_num,
                   index_for_pruning, argsort_memo, reran, first_output,
                   first_ratio>>
    /\ UNCHANGED nbVars
    /\ UNCHANGED evalVars
    /\ UNCHANGED fitVars

\* One iteration of the for loop on the next triple.
LoopBody ==
    /\ pc = "loop"
    /\ it < Len(pruning_info)
    /\ LET t == it + 1
           labels == pruning_info[t].labels
           criteria == pruning_info[t].criteria
           num == PruneChannelsNum(ChannelsCounted(pruning_info, t),
                                   pruning_ratio)
       IN \E order \in Argsort(argsort_memo, criteria) :
            /\ argsort_memo' = (criteria :> order) @@ argsort_memo
            /\ it' = t
            /\ prune_channels_num' = num
            /\ index_for_pruning' = SliceTo(order, num)
            /\ pruning_info' = InfoAfterIteration(pruning_info, t)
            /\ IF IndexInBounds(labels, index_for_pruning')
               THEN /\ all_channel_indices_to_prune' =
                         Accumulate(all_channel_indices_to_prune,
                                    TakeLabels(labels, index_for_pruning'))
                    /\ selected' =
                         Append(selected, TakeLabels(labels, index_for_pruning'))
                    /\ pc' = "loop"
               ELSE /\ pc' = "error"
                    /\ UNCHANGED <<all_channel_indices_to_prune, selected>>
    /\ UNCHANGED <<pruning_ratio, reran, first_output, first_ratio>>
    /\ UNCHANGED nbVars
    /\ UNCHANGED evalVars
    /\ UNCHANGED fitVars

\* The iterator is exhausted: the cell ends.
LoopExit ==
    /\ pc = "loop"
    /\ it = Len(pruning_info)
    /\ pc' = "done"
    /\ UNCHANGED <<pruning_info, pruning_ratio, all_channel_indices_to_prune,
                   it, prune_channels_num, index_for_pruning, selected,
                   argsort_memo, reran, first_output, first_ratio>>
    /\ UNCHANGED nbVars
    /\ UNCHANGED evalVars
    /\ UNCHANGED fitVars

\* The user executes the cell a second time, on the same pruning info.
ReExecute ==
    /\ pc \in {"done", "error"}
    /\ ~reran
    /\ reran' = TRUE
    /\ first_output' = all_channel_indices_to_prune
    /\ first_ratio' = pruning_ratio
    /\ pc' = "idle"
    /\ UNCHANGED <<pruning_info, pruning_ratio, all_channel_indices_to_prune,
                   it, prune_channels_num, index_for_pruning, selected,
                   argsort_memo>>
    /\ UNCHANGED nbVars
    /\ UNCHANGED evalVars
    /\ UNCHANGED fitVars

Next == StartCell \/ LoopBody \/ LoopExit \/ ReExecute

Spec == Init /\ [][Next]_vars

\* The cell on the one-tensor pruning infos of the example's family.
ExamplesInit ==
    /\ pruning_info \in ExampleInfos
    /\ pruning_ratio \in ExampleRatios
    /\ all_channel_indices_to_prune = <<>>
    /\ pc = "idle"
    /\ it = 0
    /\ prune_channels_num = 0
    /\ index_for_pruning = <<>>
    /\ selected = <<>>
    /\ argsort_memo = <<>>
    /\ reran = FALSE
    /\ first_output = <<>>
    /\ first_ratio = pruning_ratio
    /\ FreshKernel("manual_pruning")
    /\ EvalIdle(<<>>)
    /\ NewModule("LitModel", 1)

SpecExamples == ExamplesInit /\ [][Next]_vars

\* The user gives pruning_ratio another value and executes the cell a
\* second time, on the same pruning info.
ReExecuteWithRatio ==
    /\ pc \in {"done", "error"}
    /\ ~reran
    /\ reran' = TRUE
    /\ first_output' = all_channel_indices_to_prune
    /\ first_ratio' = pruning_ratio
    /\ pruning_ratio' \in Ratios \ {pruning_ratio}
    /\ pc' = "idle"
    /\ UNCHANGED <<pruning_info, all_channel_indices_to_prune, it,
                   prune_channels_num, index_for_pruning, selected,
                   argsort_memo>>
    /\ UNCHANGED nbVars
    /\ UNCHANGED evalVars
    /\ UNCHANGED fitVars

\* The cell on the example's family and on the example split in two
\* tensors, with every ratio tried.
RatiosInit ==
    /\ pruning_info \in ExampleInfos \cup {ExampleSplitInfo}
    /\ pruning_ratio \in Ratios
    /\ all_channel_indices_to_prune = <<>>
    /\ pc = "idle"
    /\ it = 0
    /\ prune_channels_num = 0
    /\ index_for_pruning = <<>>
    /\ selected = <<>>
    /\ argsort_memo = <<>>
    /\ reran = FALSE
    /\ first_output = <<>>
    /\ first_ratio = pruning_ratio
    /\ FreshKernel("manual_pruning")
    /\ EvalIdle(<<>>)
    /\ NewModule("LitModel", 1)

RatiosNext == Next \/ ReExecuteWithRatio

SpecRatios == RatiosInit /\ [][RatiosNext]_vars

\* ------------------------------------------------------- running notebooks

\* A run executes the code cells of the notebook from the first, in the
\* order of the file, and ends at the first cell that raises; the kernel
\* keeps its names from one run to the next. What the cells compute is left
\* out: a model is known by whether its channels are pruned, its batch norm
\* statistics tuned, its weights trained, and its quantization distilled and
\* enabled.

\* The cell the run is at.
ThisCell == Cells(notebook)[cell_no + 1]

\* The run has a cell to execute.
AtCell == ~halted /\ cell_no < Len(Cells(notebook))

\* The run is at a cell that does op and reads no unbound name.
Runs(op) ==
    /\ AtCell
    /\ ThisCell.op = op
    /\ ThisCell.reads \subseteq bound

\* The model the cell works on.
ModelOn(cell) ==
    IF cell.on \in DOMAIN models THEN models[cell.on] ELSE NoModel

\* The names the cell binds when it ends.
Bindings(cell) ==
    cell.binds \cup (IF cell.out = "-" THEN {} ELSE {cell.out})

\* The latencies the cell reads, with the model each was measured on
\* (target_latency=desired_latency).
LatenciesRead(cell) ==
    [v \in cell.reads \cap DOMAIN measured |-> measured[v]]

\* The record of an execution of the cell: the model it worked on, whether it
\* ended without raising, and whether a name it read held what a cell that
\* raised had left.
Event(cell, subject, ok) ==
    [op |-> cell.op, line |-> cell.line, on |-> cell.on, out |-> cell.out,
     subject |-> subject, inplace |-> InplaceArgument(cell), ok |-> ok,
     partial_inputs |-> (cell.reads \cap partial # {}),
     latencies |-> LatenciesRead(cell)]

\* The latencies bound when the cell has ended: a cell that measures the
\* latency of a model binds it to the names it assigns.
Measurements(cell, subject) ==
    IF cell.op = "latency"
    THEN [v \in cell.binds |-> [of |-> cell.on, model |-> subject]] @@ measured
    ELSE measured

\* The cell ends without raising, having worked on subject and left the
\* models as in after.
Completes(subject, after, declared) ==
    /\ cell_no' = cell_no + 1
    /\ trace' = Append(trace, Event(ThisCell, subject, TRUE))
    /\ models' = after
    /\ exported' = declared
    /\ bound' = bound \cup Bindings(ThisCell)
    /\ partial' = partial \ Bindings(ThisCell)
    /\ measured' = Measurements(ThisCell, subject)
    /\ UNCHANGED <<notebook, halted, runs>>
    /\ UNCHANGED cellVars
    /\ UNCHANGED evalVars
    /\ UNCHANGED fitVars

\* The cell is made of shell commands (!) or runs a script (%run): IPython
\* reports a command that fails or a script that raises, and raises nothing
\* itself.
Swallows(cell) == cell.op \in {"shell", "export_baseline"}

\* ! git clone ..., ! git checkout ..., ! cp ...
RunShell == Runs("shell") /\ Completes(NoModel, models, exported)

\* Imports, definitions, constants, directories.
Setup == Runs("setup") /\ Completes(NoModel, models, exported)

\* create_dataloader / create_imagenette_dataloaders_for_pruning
PrepareDataset == Runs("dataloaders") /\ Completes(NoModel, models, exported)

\* regular_model = mobilenet_v2(...), lit_model = LitModel()
CreateModel ==
    /\ Runs("create_model")
    /\ Completes(NoModel, (ThisCell.out :> NewModel) @@ models, exported)

\* regular_model.load_state_dict(torch.load(checkpoint_path)['model'])
LoadWeights ==
    /\ Runs("load_weights")
    /\ Completes(ModelOn(ThisCell),
                 [models EXCEPT ![ThisCell.on].weights = "loaded"], exported)

\* model = LitModel(); trainer.fit(model=model)
TrainBaseline ==
    /\ Runs("train_baseline")
    /\ Completes(NoModel,
                 (ThisCell.out :> [NewModel EXCEPT !.weights = "trained"])
                     @@ models,
                 exported)

\* eval_model(model, validation_dataloader), trainer.test(...), run(**opt)
Evaluate == Runs("evaluate") /\ Completes(ModelOn(ThisCell), models, exported)

\* lcf(pruned_model.eval()), MacCalculatorPthflops().calculate(...)
MeasureLatency ==
    Runs("latency") /\ Completes(ModelOn(ThisCell), models, exported)

\* The calibration loop under EnotPruningCalibrator, then
\* pruning_info = pruning_calibrator.pruning_info
Calibrate == Runs("calibrate") /\ Completes(ModelOn(ThisCell), models, exported)

\* The selection cell, get_labels_for_equal_pruning(pruning_info, pruning_ratio)
Select == Runs("select") /\ Completes(NoModel, models, exported)

\* pruned_model = prune_model(model=..., pruning_info=..., prune_labels=...,
\* inplace=False)
Prune ==
    /\ Runs("prune")
    /\ LET made == PruneModel(models[ThisCell.on], InplaceArgument(ThisCell))
       IN Completes(models[ThisCell.on],
                    (ThisCell.out :> made.result)
                        @@ (ThisCell.on :> made.original) @@ models,
                    exported)

\* tune_bn_stats(model=pruned_model, ..., reset_bns=True, ...)
TuneBnStats ==
    /\ Runs("tune_bn")
    /\ Completes(ModelOn(ThisCell),
                 [models EXCEPT ![ThisCell.on].bn_stats = "tuned"], exported)

\* tutorial_train_loop(model=pruned_model, ...), trainer.fit(model=pruned_model)
FineTune ==
    /\ Runs("finetune")
    /\ Completes(ModelOn(ThisCell),
                 [models EXCEPT ![ThisCell.on].weights = "finetuned",
                                ![ThisCell.on].bn_stats = "tuned"],
                 exported)

\* calibrate_and_prune_model_equal / calibrate_and_prune_model_optimal with
\* finetune_bn=True: the pruned model is returned, the model given is left as
\* it was.
CalibrateAndPrune ==
    /\ Runs("calibrate_and_prune")
    /\ Completes(ModelOn(ThisCell),
                 (ThisCell.out :> [models[ThisCell.on]
                                      EXCEPT !.channels = "pruned",
                                             !.bn_stats = "tuned"])
                     @@ models,
                 exported)

\* torch.save(pruned_model.model, 'pruned_model.pth')
SaveModel ==
    /\ Runs("save_model")
    /\ Completes(ModelOn(ThisCell),
                 (ThisCell.out :> models[ThisCell.on]) @@ models, exported)

\* convert(ONNX_PATH), attempt_load('yolov5s.pt'),
\* pruned_model = TuneLitModel(); pruned_model.model = torch.load(...)
LoadModel ==
    /\ Runs("load_model")
    /\ Completes(ModelOn(ThisCell),
                 (ThisCell.out :> models[ThisCell.on]) @@ models, exported)

\* %run yolov5/export.py --weights=yolov5s.pt --include=onnx ...
ExportBaseline ==
    /\ Runs("export_baseline")
    /\ LET pretrained == [NewModel EXCEPT !.weights = "loaded"]
       IN Completes(NoModel,
                    [f \in ThisCell.binds \cup {ThisCell.out} |-> pretrained]
                        @@ models,
                    exported)

\* fake_quantized_model = TrtFakeQuantizedModel(regular_model).cuda();
\* dist = DefaultQuantizationDistiller(...); dist.distill()
Distill ==
    /\ Runs("distill")
    /\ Completes(ModelOn(ThisCell),
                 (ThisCell.out :> [models[ThisCell.on]
                                      EXCEPT !.distilled = TRUE])
                     @@ models,
                 exported)

\* fake_quantized_model.enable_quantization_mode(True), then
\* torch.onnx.export(model=fake_quantized_model, ..., f=QUANT_ONNX_PATH, ...)
ExportOnnx ==
    /\ Runs("export")
    /\ LET quantized == [models[ThisCell.on] EXCEPT !.quantization_mode = TRUE]
       IN Completes(quantized,
                    (ThisCell.out :> quantized) @@ (ThisCell.on :> quantized)
                        @@ models,
                    {ExportInterface})

\* Benchmark(...).run()
RunBenchmark ==
    Runs("benchmark") /\ Completes(ModelOn(ThisCell), models, exported)

\* What a cell that raised before it ended has bound to the name of the model
\* it makes.
HalfMade(cell) ==
    IF cell.op = "distill" /\ cell.on \in DOMAIN models
    THEN models[cell.on] ELSE NewModel

\* The cell the run is at fails, having left nothing or the names it may
\* leave; the run ends there when stops is TRUE, and goes on with the next
\* cell otherwise.
CellFails(stops) ==
    /\ \E left \in {{}, ThisCell.leaves} :
          /\ bound' = bound \cup left
          /\ partial' = partial \cup left
          /\ models' = IF ThisCell.out \in left
                       THEN (ThisCell.out :> HalfMade(ThisCell)) @@ models
                       ELSE models
    /\ trace' = Append(trace, Event(ThisCell, ModelOn(ThisCell), FALSE))
    /\ halted' = stops
    /\ cell_no' = IF stops THEN cell_no ELSE cell_no + 1
    /\ UNCHANGED <<notebook, runs, exported, measured>>
    /\ UNCHANGED cellVars
    /\ UNCHANGED evalVars
    /\ UNCHANGED fitVars

\* No cell catches an exception: the run ends at the cell that raised.
Raise == AtCell /\ ~Swallows(ThisCell) /\ CellFails(TRUE)

\* A shell command fails or the script run by %run raises: the cell ends
\* and the run goes on with the next cell.
FailUnnoticed == AtCell /\ Swallows(ThisCell) /\ CellFails(FALSE)

\* The user runs the notebook again from its first cell, in the same kernel.
Rerun ==
    /\ halted \/ cell_no = Len(Cells(notebook))
    /\ runs < MaxRuns
    /\ runs' = runs + 1
    /\ cell_no' = 0
    /\ halted' = FALSE
    /\ trace' = <<>>
    /\ UNCHANGED <<notebook, bound, partial, models, exported, measured>>
    /\ UNCHANGED cellVars
    /\ UNCHANGED evalVars
    /\ UNCHANGED fitVars

PipelineInit ==
    /\ \E nb \in Notebooks : FreshKernel(nb)
    /\ pruning_info = <<>>
    /\ pruning_ratio = ExampleRatio
    /\ all_channel_indices_to_prune = <<>>
    /\ pc = "idle"
    /\ it = 0
    /\ prune_channels_num = 0
    /\ index_for_pruning = <<>>
    /\ selected = <<>>
    /\ argsort_memo = <<>>
    /\ reran = FALSE
    /\ first_output = <<>>
    /\ first_ratio = pruning_ratio
    /\ EvalIdle(<<>>)
    /\ NewModule("LitModel", 1)

PipelineNext ==
    \/ RunShell
    \/ Setup
    \/ PrepareDataset
    \/ CreateModel
    \/ LoadWeights
    \/ TrainBaseline
    \/ Evaluate
    \/ MeasureLatency
    \/ Calibrate
    \/ Select
    \/ Prune
    \/ TuneBnStats
    \/ FineTune
    \/ CalibrateAndPrune
    \/ SaveModel
    \/ LoadModel
    \/ ExportBaseline
    \/ Distill
    \/ ExportOnnx
    \/ RunBenchmark
    \/ Raise
    \/ FailUnnoticed
    \/ Rerun

SpecPipeline == PipelineInit /\ [][PipelineNext]_vars

\* -------------------------------------------------------------- eval_model

\* def eval_model(model, dataloader): the loop over the batches of the
\* dataloader and the division at its end. A batch is known by its size
\* n = inputs.shape[0], which is at least 1, and by the numbers
\* batch_loss.item() and batch_accuracy.item() the model gets on it, whole
\* multiples of a unit of loss and of a unit of accuracy; sums, products and
\* the quotient are exact.

\* Most batches the dataloader yields.
MaxBatches == 2

\* Most samples of a batch.
MaxBatchSize == 2

\* The largest batch_loss.item(), in units of loss.
MaxBatchLoss == 1

\* The largest batch_accuracy.item(), in units of accuracy.
MaxBatchAccuracy == 1

\* The batches a dataloader may yield.
Batches ==
    [n : 1..MaxBatchSize, batch_loss : 0..MaxBatchLoss,
     batch_accuracy : 0..MaxBatchAccuracy]

\* Faulty variant: the batch's value is added as it is, whatever its size.
Unweighted(value, n) == value

\* batch_loss.item() * n, batch_accuracy.item() * n
Weighted(value, n) == value * n

\* Faulty variant: a division that yields a quotient for every divisor.
DivisionAlwaysDefined(divisor) == TRUE

\* a / b raises ZeroDivisionError when b is 0.
DivisionDefined(divisor) == divisor # 0

\* a / b, the exact quotient.
Quotient(a, b) == [num |-> a, den |-> b]

\* eval_model is called: model.eval(), total = 0, total_loss = 0.0,
\* total_correct = 0.0
EvalStart ==
    /\ eval_pc = "idle"
    /\ eval_pc' = "loop"
    /\ total' = 0
    /\ total_loss' = 0
    /\ total_correct' = 0
    /\ UNCHANGED <<dataloader, visited, returned>>
    /\ UNCHANGED cellVars
    /\ UNCHANGED nbVars
    /\ UNCHANGED fitVars

\* One iteration of for inputs, labels in tqdm(dataloader).
EvalBatch ==
    /\ eval_pc = "loop"
    /\ Len(visited) < Len(dataloader)
    /\ LET b == Len(visited) + 1
           n == dataloader[b].n
       IN /\ visited' = Append(visited, b)
          /\ total' = total + n
          /\ total_loss' = total_loss + Weighted(dataloader[b].batch_loss, n)
          /\ total_correct' =
                total_correct + Weighted(dataloader[b].batch_accuracy, n)
    /\ UNCHANGED <<dataloader, eval_pc, returned>>
    /\ UNCHANGED cellVars
    /\ UNCHANGED nbVars
    /\ UNCHANGED fitVars

\* The dataloader is exhausted:
\* return total_loss / total, total_correct / total
EvalReturn ==
    /\ eval_pc = "loop"
    /\ Len(visited) = Len(dataloader)
    /\ IF DivisionDefined(total)
       THEN /\ returned' = << Quotient(total_loss, total),
                              Quotient(total_correct, total) >>
            /\ eval_pc' = "done"
       ELSE /\ eval_pc' = "error"
            /\ UNCHANGED returned
    /\ UNCHANGED <<dataloader, visited, total, total_loss, total_correct>>
    /\ UNCHANGED cellVars
    /\ UNCHANGED nbVars
    /\ UNCHANGED fitVars

EvalInit ==
    /\ \E len \in 0..MaxBatches :
          \E batches \in SeqsOfLen(Batches, len) : EvalIdle(batches)
    /\ FreshKernel("manual_pruning")
    /\ pruning_info = <<>>
    /\ pruning_ratio = ExampleRatio
    /\ all_channel_indices_to_prune = <<>>
    /\ pc = "idle"
    /\ it = 0
    /\ prune_channels_num = 0
    /\ index_for_pruning = <<>>
    /\ selected = <<>>
    /\ argsort_memo = <<>>
    /\ reran = FALSE
    /\ first_output = <<>>
    /\ first_ratio = pruning_ratio
    /\ NewModule("LitModel", 1)

EvalNext == EvalStart \/ EvalBatch \/ EvalReturn

SpecEval == EvalInit /\ [][EvalNext]_vars

\* ---------------------------------------------------- the Lightning modules

\* class LitModel(pl.LightningModule) and class TuneLitModel(LitModel), and
\* what pl.Trainer calls on a module: configure_optimizers once, then
\* training steps, a validation epoch after every steps_per_epoch of them,
\* and test steps for trainer.test. What Lightning does between the calls
\* is left out.

\* Most batches of the training dataloader.
MaxStepsPerEpoch == 3

\* Most training steps followed.
MaxGlobalStep == 8

Classes == {"LitModel", "TuneLitModel"}

\* The methods class LitModel defines.
LitModelMethods ==
    {"__init__", "forward", "configure_optimizers", "training_step",
     "validation_step", "test_step", "validation_epoch_end", "test_epoch_end",
     "train_dataloader", "val_dataloader", "test_dataloader",
     "predict_dataloader"}

\* Faulty variant: the subclass has a training step of its own too.
TuneLitModelMethodsWithStep == {"configure_optimizers", "training_step"}

\* The methods class TuneLitModel defines.
TuneLitModelMethods == {"configure_optimizers"}

\* The class whose definition of method a module of class cls runs:
\* TuneLitModel's own when it has one, LitModel's otherwise.
Resolve(cls, method) ==
    IF cls = "TuneLitModel" /\ method \in TuneLitModelMethods
    THEN "TuneLitModel" ELSE "LitModel"

\* The numbers in the class's configure_optimizers: lr, and the factors of
\* steps_per_epoch in warmup_epochs and max_epochs.
Hyperparameters(definer) ==
    IF definer = "TuneLitModel"
    THEN [lr |-> [num |-> 1, den |-> 1000], warmup |-> 15, max |-> 150]
    ELSE [lr |-> [num |-> 1, den |-> 100], warmup |-> 50, max |-> 500]

\* What configure_optimizers of the class returns.
ConfigureOptimizers(definer, len) ==
    [optimizer |-> "RAdam",
     lr |-> Hyperparameters(definer).lr,
     scheduler |-> "LinearWarmupCosineAnnealingLR",
     warmup_epochs |-> Hyperparameters(definer).warmup * len,
     max_epochs |-> Hyperparameters(definer).max * len,
     interval |-> "step",
     frequency |-> 1]

\* The calls of the methods on the module, each with the class whose
\* definition runs.
Calls(methods) ==
    {[method |-> m, defined_in |-> Resolve(module, m)] : m \in methods}

\* trainer.fit(model=...) starts: the optimizer and the scheduler are
\* configured, the dataloaders fetched.
FitStart ==
    /\ fit_pc = "new"
    /\ fit_pc' = "training"
    /\ configured' =
          ConfigureOptimizers(Resolve(module, "configure_optimizers"),
                              steps_per_epoch)
    /\ called' = called \cup Calls({"configure_optimizers", "train_dataloader",
                                    "val_dataloader"})
    /\ UNCHANGED <<module, steps_per_epoch, global_step>>
    /\ UNCHANGED cellVars
    /\ UNCHANGED nbVars
    /\ UNCHANGED evalVars

\* One training batch: training_step, then the optimizer and (interval
\* 'step') the scheduler step.
TrainingStep ==
    /\ fit_pc = "training"
    /\ global_step < MaxGlobalStep
    /\ global_step' = global_step + 1
    /\ called' = called \cup Calls({"training_step", "forward"})
    /\ fit_pc' = IF global_step' % steps_per_epoch = 0
                 THEN "validating" ELSE "training"
    /\ UNCHANGED <<module, steps_per_epoch, configured>>
    /\ UNCHANGED cellVars
    /\ UNCHANGED nbVars
    /\ UNCHANGED evalVars

\* The validation epoch at the end of a training epoch; after it training
\* goes on or, max_epochs of the trainer reached, ends.
ValidationEpoch ==
    /\ fit_pc = "validating"
    /\ fit_pc' \in {"training", "fitted"}
    /\ called' = called \cup Calls({"validation_step", "validation_epoch_end",
                                    "forward"})
    /\ UNCHANGED <<module, steps_per_epoch, configured, global_step>>
    /\ UNCHANGED cellVars
    /\ UNCHANGED nbVars
    /\ UNCHANGED evalVars

\* trainer.test(model=..., dataloaders=....test_dataloader())
Test ==
    /\ fit_pc = "fitted"
    /\ fit_pc' = "tested"
    /\ called' = called \cup Calls({"test_dataloader", "test_step",
                                    "test_epoch_end", "forward"})
    /\ UNCHANGED <<module, steps_per_epoch, configured, global_step>>
    /\ UNCHANGED cellVars
    /\ UNCHANGED nbVars
    /\ UNCHANGED evalVars

FitInit ==
    /\ \E cls \in Classes : \E len \in 1..MaxStepsPerEpoch : NewModule(cls, len)
    /\ FreshKernel("lightning_pruning")
    /\ EvalIdle(<<>>)
    /\ pruning_info = <<>>
    /\ pruning_ratio = ExampleRatio
    /\ all_channel_indices_to_prune = <<>>
    /\ pc = "idle"
    /\ it = 0
    /\ prune_channels_num = 0
    /\ index_for_pruning = <<>>
    /\ selected = <<>>
    /\ argsort_memo = <<>>
    /\ reran = FALSE
    /\ first_output = <<>>
    /\ first_ratio = pruning_ratio

FitNext == FitStart \/ TrainingStep \/ ValidationEpoch \/ Test

SpecFit == FitInit /\ [][FitNext]_vars

\* ------------------------------------------------------ the claims' terms

Criteria(t) == pruning_info[t].criteria

Labels(t) == pruning_info[t].labels

Channels(t) == Len(Criteria(t))

\* The tensor's label sequence is parallel to its criteria.
Parallel(t) == Len(Labels(t)) = Len(Criteria(t))

\* A pruning ratio as the data model has it: a scalar in (0,1).
RatioInUnitInterval ==
    0 < pruning_ratio.num /\ pruning_ratio.num < pruning_ratio.den

\* The positions of tensor t whose label the iteration on t appended.
SelectedPositions(t) ==
    {i \in DOMAIN Labels(t) : Labels(t)[i] \in Range(selected[t])}

\* No label belongs to two tensors.
LabelsDisjoint ==
    \A s, t \in DOMAIN pruning_info :
        s # t => Range(Labels(s)) \cap Range(Labels(t)) = {}

\* Some channel of tensor t was selected and another of the same score was
\* left out.
TieAtTheCut(t) ==
    LET chosen == SelectedPositions(t) \cap DOMAIN Criteria(t)
    IN \E i \in chosen : \E j \in DOMAIN Criteria(t) \ chosen :
           Criteria(t)[i] = Criteria(t)[j]

\* floor(n * r) for tensor t.
FloorOfShare(t) == Floor(Channels(t) * pruning_ratio.num, pruning_ratio.den)

\* ------------------------------------------------------------------ claims

\* C1: for a pruning ratio r in (0,1), every tensor with n criteria values
\* and as many labels gets through its iteration, and the number of labels
\* selected from it is exactly floor(n * r).
C1_EqualRatioCount ==
    RatioInUnitInterval =>
        \A t \in 1..it :
            Parallel(t) => /\ t \in DOMAIN selected
                           /\ Len(selected[t]) = FloorOfShare(t)

\* C1 witness: labels were selected from a tensor for which n * r is no
\* integer, so that the floor rounds down.
C1_Witness ==
    /\ RatioInUnitInterval
    /\ \E t \in DOMAIN selected :
          /\ Parallel(t)
          /\ (Channels(t) * pruning_ratio.num) % pruning_ratio.den # 0
          /\ Len(selected[t]) >= 1

\* C2: within each tensor, every selected label has a criteria value less
\* than or equal to the criteria value of every non-selected label of the
\* same tensor.
C2_LowestScoreSelection ==
    \A t \in DOMAIN selected :
        LET both == DOMAIN Labels(t) \cap DOMAIN Criteria(t)
            chosen == SelectedPositions(t) \cap both
        IN \A i \in chosen : \A j \in both \ chosen :
               Criteria(t)[i] <= Criteria(t)[j]

\* C2 witness: a tensor of three channels from which some but not all labels
\* were selected, the first channel, of a higher score, left out.
C2_Witness ==
    \E t \in DOMAIN selected :
        /\ Parallel(t)
        /\ Channels(t) = 3
        /\ selected[t] # <<>>
        /\ 1 \notin SelectedPositions(t)
        /\ \E i \in SelectedPositions(t) : Criteria(t)[i] < Criteria(t)[1]

\* No tensor of the pruning info has more or fewer labels than criteria.
AllParallel == \A t \in DOMAIN pruning_info : Parallel(t)

\* C3: when the pruning ratio is outside the open interval (0,1), the
\* selection step ends in an error and produces no prune-label list: on a
\* pruning info of parallel label and criteria sequences it selects no
\* label.
C3_RejectsInvalidRatio ==
    (~RatioInUnitInterval /\ AllParallel) =>
        all_channel_indices_to_prune = <<>>

\* C4: for a tensor whose label sequence and criteria sequence have
\* different lengths the selection step ends in an error instead of
\* returning labels: with a ratio in (0,1), no iteration on such a tensor
\* appends labels.
C4_RejectsMismatchedLengths ==
    RatioInUnitInterval =>
        \A t \in DOMAIN selected : selected[t] # <<>> => Parallel(t)

\* C5 as stated: the positions selected from a tensor are the first
\* prune_channels_num entries of the stable ascending sort of its criteria
\* (checked for ratios in (0,1) and parallel label and criteria sequences).
C5_StableTieBreak ==
    (it >= 1 /\ RatioInUnitInterval /\ AllParallel) =>
        index_for_pruning =
            SliceTo(StableArgsort(Criteria(it)), prune_channels_num)

\* C5 amended: the positions selected from a tensor are distinct, they are in
\* ascending order of their criteria values, and no position left out has a
\* smaller value than a selected one; which of several positions of equal
\* value are selected is np.argsort's choice.
C5_AscendingPrefix ==
    it >= 1 =>
        LET c == Criteria(it)
            idx == index_for_pruning
        IN /\ Range(idx) \subseteq DOMAIN c
           /\ \A a, b \in DOMAIN idx :
                 a < b => idx[a] # idx[b] /\ c[idx[a]] <= c[idx[b]]
           /\ \A i \in Range(idx) : \A j \in DOMAIN c \ Range(idx) :
                 c[i] <= c[j]

\* C5 witness: of two channels of equal score the one of the larger position
\* was selected and the one of the smaller position left out.
C5_Witness ==
    /\ it >= 1
    /\ \E i \in Range(index_for_pruning) :
          \E j \in DOMAIN Criteria(it) \ Range(index_for_pruning) :
              Criteria(it)[i] = Criteria(it)[j] /\ j < i

C7_InputsUnchanged ==
    [][pruning_info' = pruning_info /\ pruning_ratio' = pruning_ratio]_vars

\* C7 witness: the step has completed on a tensor whose criteria were not in
\* ascending order, and has selected a label from it.
C7_Witness ==
    /\ pc = "done"
    /\ \E t \in DOMAIN selected :
          /\ selected[t] # <<>>
          /\ \E i, j \in DOMAIN Criteria(t) :
                i < j /\ Criteria(t)[i] > Criteria(t)[j]

\* C8: the labels selected from a tensor are those the selection makes from
\* that tensor's labels, that tensor's criteria and the ratio alone, and two
\* tensors of one pruning info with the same criteria and as many labels
\* have the same positions selected, whatever tensors come before them.
C8_PerTensorIndependence ==
    /\ \A t \in DOMAIN selected :
          /\ Criteria(t) \in DOMAIN argsort_memo
          /\ selected[t] =
                TakeLabels(Labels(t),
                           SliceTo(argsort_memo[Criteria(t)],
                                   PruneChannelsNum(Channels(t), pruning_ratio)))
    /\ \A s, t \in DOMAIN selected :
          (s < t /\ Criteria(s) = Criteria(t)
                 /\ Len(Labels(s)) = Len(Labels(t))) =>
              /\ Len(selected[s]) = Len(selected[t])
              /\ \A i \in DOMAIN selected[s] :
                    selected[s][i] - FirstLabel(s) = selected[t][i] - FirstLabel(t)

\* C8 witness: labels were selected from two tensors of the same criteria.
C8_Witness ==
    \E s, t \in DOMAIN selected :
        /\ s < t
        /\ Criteria(s) = Criteria(t)
        /\ Len(Labels(s)) = Len(Labels(t))
        /\ selected[t] # <<>>

\* C9: when the step has completed, the prune-label list is the
\* concatenation of the selections from each tensor: every element is a
\* label of the tensor it was selected from, and for a ratio r in (0,1) the
\* length of the list is the sum over the tensors of floor(n_t * r).
C9_OutputIsConcatenation ==
    pc = "done" =>
        /\ Len(selected) = Len(pruning_info)
        /\ all_channel_indices_to_prune = Concat(selected)
        /\ \A t \in DOMAIN selected :
              Range(selected[t]) \subseteq Range(Labels(t))
        /\ RatioInUnitInterval =>
              Len(all_channel_indices_to_prune) =
                  SumSeq([t \in DOMAIN pruning_info |-> FloorOfShare(t)])

\* C9 witness: the step has completed with a ratio in (0,1) on two tensors,
\* with labels selected from each.
C9_Witness ==
    /\ pc = "done"
    /\ RatioInUnitInterval
    /\ Len(selected) = 2
    /\ selected[1] # <<>>
    /\ selected[2] # <<>>

\* C10: whenever floor(len(criteria) * r) is 0 for a tensor, its iteration
\* raises no error and selects no label from it, so that (labels belonging
\* to one tensor only) none of its labels is in the list, and the loop goes
\* on to the remaining tensors.
C10_ZeroShareContributesNothing ==
    \A t \in 1..it :
        FloorOfShare(t) = 0 =>
            /\ t \in DOMAIN selected
            /\ selected[t] = <<>>
            /\ (pc = "done" /\ LabelsDisjoint) =>
                  Range(Labels(t)) \cap Range(all_channel_indices_to_prune) = {}

\* C10 witness: the step has completed with a ratio in (0,1); nothing was
\* selected from the first tensor, which has a channel, and a label was
\* selected from the tensor after it.
C10_Witness ==
    /\ pc = "done"
    /\ RatioInUnitInterval
    /\ Len(selected) = 2
    /\ Channels(1) >= 1
    /\ FloorOfShare(1) = 0
    /\ selected[1] = <<>>
    /\ selected[2] # <<>>

\* C11: with the ratio 0 the step raises no error and selects nothing: for
\* every pruning info the prune-label list is empty at every point of the
\* run, nothing is selected from any tensor, and the loop gets through every
\* tensor.
C11_ZeroRatioSelectsNothing ==
    pruning_ratio.num = 0 =>
        /\ pc # "error"
        /\ all_channel_indices_to_prune = <<>>
        /\ \A t \in DOMAIN selected : selected[t] = <<>>
        /\ pc = "done" => Len(selected) = Len(pruning_info)

\* C11 witness: the step has completed with the ratio 0 on two tensors, one
\* of them of three channels.
C11_Witness ==
    /\ pruning_ratio.num = 0
    /\ pc = "done"
    /\ Len(selected) = 2
    /\ \E t \in DOMAIN pruning_info : Channels(t) = 3 /\ Parallel(t)

\* C12: for every ratio r with 0 <= r < 1 and every tensor of n channels,
\* prune_channels_num is at most n and the number of labels selected from
\* the tensor is at most n.
C12_NeverMoreThanAll ==
    (0 <= pruning_ratio.num /\ pruning_ratio.num < pruning_ratio.den) =>
        /\ it >= 1 => prune_channels_num <= Channels(it)
        /\ \A t \in DOMAIN selected : Len(selected[t]) <= Channels(t)

\* C12 witness: with the largest ratio below 1, all channels but one of a
\* tensor of three were selected.
C12_Witness ==
    /\ pruning_ratio.num = pruning_ratio.den - 1
    /\ \E t \in DOMAIN selected :
          Channels(t) = 3 /\ Len(selected[t]) = 2

\* The pruning info of the worked example: one tensor, criteria
\* 0.5, 0.1, 0.9, 0.3 and labels 10, 11, 12, 13.
OnExample ==
    /\ pruning_info = <<[labels |-> ExampleLabels, criteria |-> ExampleCriteria]>>
    /\ pruning_ratio = ExampleRatio

\* C13: on the worked example the iteration computes prune_channels_num = 2
\* and raises no error, and the prune-label list is made of the labels 11
\* and 13, each once.
C13_WorkedExample ==
    (OnExample /\ it = 1) =>
        /\ prune_channels_num = 2
        /\ pc # "error"
        /\ Len(all_channel_indices_to_prune) = 2
        /\ Range(all_channel_indices_to_prune) = {11, 13}

\* C13 witness: the step has completed on the worked example.
C13_Witness == OnExample /\ pc = "done" /\ ~reran

\* The pruning info of one tensor with no criteria and no labels, and the
\* ratio one half.
OnEmptyTensor ==
    /\ pruning_info = <<[labels |-> <<>>, criteria |-> <<>>]>>
    /\ pruning_ratio = ExampleRatio

\* C14: on a tensor with empty criteria and empty labels and the ratio 0.5
\* the iteration computes prune_channels_num = 0, selects no label and
\* raises no error.
C14_EmptyTensor ==
    (OnEmptyTensor /\ it = 1) =>
        /\ prune_channels_num = 0
        /\ index_for_pruning = <<>>
        /\ selected = <<(<<>>)>>
        /\ all_channel_indices_to_prune = <<>>
        /\ pc # "error"

\* C14 witness: the step has completed on the empty tensor.
C14_Witness == OnEmptyTensor /\ pc = "done" /\ it = 1

\* C15: when the cell has been executed a second time on the same pruning
\* info and ratio, the list it leaves is the list the first execution left,
\* element for element: nothing of the first list is kept or appended to.
C15_NoStateBetweenRuns ==
    (reran /\ pc \in {"done", "error"}) =>
        all_channel_indices_to_prune = first_output

\* C15 witness: the second execution has completed and the first had left a
\* list of two labels or more.
C15_Witness ==
    /\ reran
    /\ pc = "done"
    /\ Len(first_output) >= 2

\* C24: for every ratio r in (0,1) and every tensor of n >= 1 channels,
\* prune_channels_num is less than n and fewer than n labels are selected
\* from the tensor: at least one of its channels is left.
C24_KeepsOneChannel ==
    RatioInUnitInterval =>
        /\ (it >= 1 /\ Channels(it) >= 1) => prune_channels_num < Channels(it)
        /\ \A t \in DOMAIN selected :
              Channels(t) >= 1 => Len(selected[t]) < Channels(t)

\* C24 witness: the step has completed with the largest ratio below 1 on a
\* tensor of one channel, of which nothing was selected, and a tensor of two
\* channels or more, of which all but one were selected.
C24_Witness ==
    /\ pc = "done"
    /\ RatioInUnitInterval
    /\ pruning_ratio.num = pruning_ratio.den - 1
    /\ \E s, t \in DOMAIN selected :
          /\ Channels(s) = 1 /\ Parallel(s) /\ selected[s] = <<>>
          /\ Channels(t) >= 2 /\ Parallel(t)
          /\ Len(selected[t]) = Channels(t) - 1

\* The ratio is in [0,1).
InZeroOne(ratio) == 0 <= ratio.num /\ ratio.num < ratio.den

\* a <= b for two ratios.
RatioLeq(a, b) == a.num * b.den <= b.num * a.den

\* The criteria values of each tensor are pairwise distinct.
CriteriaDistinct ==
    \A t \in DOMAIN pruning_info :
        \A i, j \in DOMAIN Criteria(t) :
            i # j => Criteria(t)[i] # Criteria(t)[j]

\* C25: when the cell has been executed with a ratio r1 and then with a
\* ratio r2, r1 <= r2, both in [0,1), on one pruning info of pairwise
\* distinct criteria values in each tensor (labels parallel to criteria),
\* every label the first execution selected is selected by the second, and
\* the second list is at least as long as the first.
C25_MonotoneInRatio ==
    (/\ reran
     /\ pc = "done"
     /\ AllParallel
     /\ CriteriaDistinct
     /\ InZeroOne(first_ratio)
     /\ InZeroOne(pruning_ratio)
     /\ RatioLeq(first_ratio, pruning_ratio)) =>
        /\ Range(first_output) \subseteq Range(all_channel_indices_to_prune)
        /\ Len(first_output) <= Len(all_channel_indices_to_prune)

\* C25 witness: on the worked example's tensor the first execution, with a
\* ratio in (0,1), selected a label, and the second, with a greater ratio
\* below 1, selected that label and another.
C25_Witness ==
    /\ reran
    /\ pc = "done"
    /\ pruning_info = <<[labels |-> ExampleLabels, criteria |-> ExampleCriteria]>>
    /\ InZeroOne(first_ratio)
    /\ InZeroOne(pruning_ratio)
    /\ first_output # <<>>
    /\ Range(first_output) \subseteq Range(all_channel_indices_to_prune)
    /\ Len(all_channel_indices_to_prune) > Len(first_output)

\* The labels of each tensor are pairwise distinct.
LabelsDistinctWithin ==
    \A t \in DOMAIN pruning_info :
        \A i, j \in DOMAIN Labels(t) : i # j => Labels(t)[i] # Labels(t)[j]

\* C26: when the labels of the pruning info are pairwise distinct within
\* each tensor and no label belongs to two tensors, no label is twice in
\* all_channel_indices_to_prune, at any point of the step and whatever the
\* ratio.
C26_NoDuplicateLabels ==
    \A i, j \in DOMAIN all_channel_indices_to_prune :
        (/\ i < j
         /\ all_channel_indices_to_prune[i] = all_channel_indices_to_prune[j])
            => ~(LabelsDisjoint /\ LabelsDistinctWithin)

\* C26 witness: the step has completed a second execution, with a ratio in
\* (0,1), on two tensors with no label in common, and the list holds labels
\* of both.
C26_Witness ==
    /\ reran
    /\ pc = "done"
    /\ LabelsDisjoint
    /\ Len(selected) = 2
    /\ selected[1] # <<>>
    /\ selected[2] # <<>>
    /\ RatioInUnitInterval

\* --------------------------------------------- the claims on the notebooks

\* Execution i of the run was of a cell that does op, and ended without
\* raising.
Ended(i, op) == trace[i].op = op /\ trace[i].ok

\* A cell that does op ended without raising before execution i of the run.
EndedBefore(i, op) == \E j \in 1..(i - 1) : Ended(j, op)

\* C16: in every run the calibration cell is executed at most once; whenever
\* the selection cell is executed, calibration has ended; whenever the cell
\* that calls prune_model is executed, calibration and selection have both
\* ended in this run, and the names it reads hold nothing that a cell which
\* raised has left.
C16_PruningInfoLifecycle ==
    /\ Cardinality({i \in DOMAIN trace : trace[i].op = "calibrate"}) <= 1
    /\ \A i \in DOMAIN trace :
          /\ trace[i].op = "select" => EndedBefore(i, "calibrate")
          /\ trace[i].op = "prune" =>
                /\ EndedBefore(i, "calibrate")
                /\ EndedBefore(i, "select")
                /\ ~trace[i].partial_inputs

\* C16 witness: prune_model has returned in a second run of the Lightning
\* notebook, in a kernel that held the names of the first run.
C16_Witness ==
    /\ notebook = "lightning_pruning"
    /\ runs > 1
    /\ \E i \in DOMAIN trace : Ended(i, "prune")

\* C17: whenever the export cell is executed, distillation has ended in this
\* run; when torch.onnx.export is called, the model it is given is distilled
\* and in quantization mode; and the export declares the input name
\* 'images', the output name 'output' and one dynamic axis, axis 0 of
\* 'images'.
C17_ExportAfterDistillation ==
    /\ \A i \in DOMAIN trace :
          trace[i].op = "export" =>
              /\ EndedBefore(i, "distill")
              /\ ~trace[i].partial_inputs
              /\ trace[i].subject.distilled
              /\ trace[i].ok => trace[i].subject.quantization_mode
    /\ \A e \in exported :
          /\ e.input_names = <<"images">>
          /\ e.output_names = <<"output">>
          /\ e.dynamic_axes = {<<"images", 0>>}
    /\ exported # {} => "yolov5s_trt_int8.onnx" \in bound

\* C17 witness: the export has ended in a second run, after a first run in
\* which a cell raised and left the fake-quantized model half made or half
\* exported.
C17_Witness ==
    /\ runs > 1
    /\ exported # {}
    /\ "fake_quantized_model" \in partial
    /\ \E i \in DOMAIN trace : Ended(i, "distill")

\* A cell of this run has raised.
Raised == \E i \in DOMAIN trace : ~trace[i].ok

\* C18: once a cell of a run has raised, no step of that run executes a
\* cell, binds a name or changes a model; the cell that raised is the last
\* the run executed; and no cell is executed on a name that holds what a
\* cell which raised has left.
C18_FailureHaltsTheRun ==
    [][/\ (Raised /\ runs' = runs) =>
              UNCHANGED <<cell_no, trace, bound, partial, models, exported>>
       /\ \A i \in DOMAIN trace' :
              /\ ~trace'[i].ok => i = Len(trace')
              /\ ~trace'[i].partial_inputs]_vars

\* C19: every call of prune_model has inplace=False; when it has returned,
\* the model returned is bound to another name and is pruned, and from then
\* on in the run the model it was given is as it was before the call: every
\* later cell that works on it finds its channels unpruned; so does the
\* optimal-pruning call that comes after the equal-ratio one.
C19_PruneLeavesOriginal ==
    \A i \in DOMAIN trace :
        /\ trace[i].op = "prune" => ~trace[i].inplace
        /\ Ended(i, "prune") =>
              /\ trace[i].out # trace[i].on
              /\ models[trace[i].on] = trace[i].subject
              /\ i = Len(trace) => models[trace[i].out].channels = "pruned"
        /\ (Ended(i, "prune") \/ Ended(i, "calibrate_and_prune")) =>
              /\ trace[i].subject.channels = "all"
              /\ \A j \in DOMAIN trace :
                    (i < j /\ trace[j].on = trace[i].on) =>
                        trace[j].subject.channels = "all"

\* C19 witness: after prune_model has returned, a later cell has worked on
\* the model that was given to it.
C19_Witness ==
    \E i, j \in DOMAIN trace :
        /\ i < j
        /\ Ended(i, "prune")
        /\ trace[j].on = trace[i].on
        /\ trace[j].ok

\* The steps of the manual pruning notebook, in the order stated.
ManualStepOrder ==
    <<"calibrate", "select", "prune", "tune_bn", "evaluate", "finetune",
      "evaluate">>

\* The executions of this run that are steps of the pruning pipeline: the
\* cells from calibration on, evaluations being those of the pruned model.
PipelineSteps ==
    SelectSeq(trace,
              LAMBDA e : /\ e.op \in Range(ManualStepOrder)
                         /\ e.op = "evaluate" => e.on = "pruned_model")

\* C20: in every run of the manual pruning notebook the steps executed are,
\* in this order, calibration, selection, pruning, batch norm tuning,
\* evaluation of the pruned model, fine-tuning and final evaluation, each
\* once, the run ending where a step raises.
C20_ManualPipelineOrder ==
    notebook = "manual_pruning" =>
        /\ Len(PipelineSteps) <= Len(ManualStepOrder)
        /\ \A i \in DOMAIN PipelineSteps :
              PipelineSteps[i].op = ManualStepOrder[i]

\* C20 witness: a run of the manual pruning notebook has executed its last
\* cell, the final evaluation.
C20_Witness ==
    /\ notebook = "manual_pruning"
    /\ ~halted
    /\ cell_no = Len(Cells(notebook))
    /\ Len(PipelineSteps) = Len(ManualStepOrder)

\* ------------------------------------------- the claim on optimal pruning

\* Execution i of the run is the call of calibrate_and_prune_model_optimal.
OptimalSearch(i) ==
    trace[i].op = "calibrate_and_prune" /\ trace[i].out = "optimal_pruned_model"

C23_OnlyOptimizersDiffer ==
    /\ \A c \in called :
          c.defined_in = IF c.method = "configure_optimizers" THEN module
                         ELSE "LitModel"
    /\ configured # <<>> =>
          /\ [configured EXCEPT !.lr = 0, !.warmup_epochs = 0, !.max_epochs = 0]
                = [optimizer |-> "RAdam", lr |-> 0,
                   scheduler |-> "LinearWarmupCosineAnnealingLR",
                   warmup_epochs |-> 0, max_epochs |-> 0,
                   interval |-> "step", frequency |-> 1]
          /\ 10 * configured.warmup_epochs = configured.max_epochs
          /\ module = "LitModel" =>
                /\ configured.lr = [num |-> 1, den |-> 100]
                /\ configured.warmup_epochs = 50 * steps_per_epoch
                /\ configured.max_epochs = 500 * steps_per_epoch
          /\ module = "TuneLitModel" =>
                /\ configured.lr = [num |-> 1, den |-> 1000]
                /\ configured.warmup_epochs = 15 * steps_per_epoch
                /\ configured.max_epochs = 150 * steps_per_epoch

\* C23 witness: a TuneLitModel has been fitted and tested, with two batches
\* or more in an epoch.
C23_Witness ==
    /\ module = "TuneLitModel"
    /\ steps_per_epoch >= 2
    /\ fit_pc = "tested"
    /\ \E c \in called : c.method = "training_step"

\* ---------------------------------------------- the claims on eval_model

\* The sum over the batches visited of f(batch).
SumOverVisited(f(_)) ==
    SumSeq([i \in DOMAIN visited |-> f(dataloader[visited[i]])])

BatchSize(b) == b.n

LossTimesSize(b) == b.batch_loss * b.n

AccuracyTimesSize(b) == b.batch_accuracy * b.n

BatchLoss(b) == b.batch_loss

\* C21: eval_model visits the batches of the dataloader in turn, each once;
\* at every point total is the sum of the sizes of the batches visited,
\* total_loss the sum of batch_loss * size and total_correct the sum of
\* batch_accuracy * size; when it returns it has visited every batch, and
\* what it returns is (total_loss / total, total_correct / total).
C21_SampleWeightedMeans ==
    /\ visited = [i \in 1..Len(visited) |-> i]
    /\ Len(visited) <= Len(dataloader)
    /\ eval_pc # "idle" =>
          /\ total = SumOverVisited(BatchSize)
          /\ total_loss = SumOverVisited(LossTimesSize)
          /\ total_correct = SumOverVisited(AccuracyTimesSize)
    /\ eval_pc = "done" =>
          /\ Len(visited) = Len(dataloader)
          /\ returned = << [num |-> total_loss, den |-> total],
                           [num |-> total_correct, den |-> total] >>

\* C21 witness: eval_model has returned on two batches of different sizes,
\* and the loss it returned is not the mean of the two batch losses.
C21_Witness ==
    /\ eval_pc = "done"
    /\ Len(dataloader) = 2
    /\ dataloader[1].n # dataloader[2].n
    /\ returned[1].num * Len(dataloader) #
          SumOverVisited(BatchLoss) * returned[1].den

\* C27: when eval_model has come to its return statement, it has raised a
\* division by zero error exactly if the dataloader yielded no batch; then
\* total is 0 and nothing is returned; with a batch or more, total is
\* positive and both quotients are returned.
C27_EmptyDataloaderFails ==
    eval_pc \in {"done", "error"} =>
        /\ eval_pc = "error" <=> dataloader = <<>>
        /\ eval_pc = "error" => total = 0 /\ returned = <<>>
        /\ eval_pc = "done" =>
              /\ total > 0
              /\ Len(returned) = 2
              /\ \A i \in DOMAIN returned : returned[i].den # 0

\* C27 witness: eval_model has raised on the empty dataloader.
C27_Witness == dataloader = <<>> /\ eval_pc = "error"

====
